---------------------------- MODULE Spec2Model ----------------------------
(***************************************************************************)
(* State-machine model of the sound filtering project:                     *)
(*   - the batch orchestrator (main.py: batch_process, process_audio_pair) *)
(*   - the spectrum and noise-band detection                               *)
(*     (analysis/frequency_analysis.py, analysis/frequency_survey.py)      *)
(*   - the filter design (filters/*.py) down to the request handed to the  *)
(*     scipy design routine and that routine's argument validation, and   *)
(*     the application of a designed filter to a signal                    *)
(*   - the quality metrics (utils/metrics.py)                              *)
(*   - the summary line parsers (utils/summary_from_txt.py,                *)
(*     utils/summary_visualization.py)                                     *)
(*   - the statements of process_audio_pair that follow the analysis, for  *)
(*     one pairing and for two pairings side by side                       *)
(*   - the silence detection (analysis/time_analysis.py).                  *)
(* Each component has its own specification over the shared variables.     *)
(***************************************************************************)
EXTENDS Integers, Sequences, FiniteSets, TLC

VARIABLES
    pc,             \* position of the running operation
    listing,        \* os.listdir(original_dir), in listing order
    noisyDir,       \* the set of names present in the noisy directory
    idx,            \* number of listing entries the for loop has taken
    attempted,      \* names handed to process_audio_pair, in call order
    printed,        \* failure lines printed by the except clause
    summary,        \* lines of results/summary.txt
    clean,          \* the clean signal (length, sample rate, spectrum)
    noisy,          \* the noisy signal
    threshold_db,   \* identify_noise_bands: threshold_db
    clean_freqs,    \* identify_noise_bands: clean_freqs
    diff_db,        \* identify_noise_bands: diff_db
    noise_bands,    \* identify_noise_bands: the bands it returned
    spectrum,       \* the (freqs, amplitudes) pair compute_fft returned
    filt,           \* the filter object under construction (self)
    coefficients,   \* what _design_filter returned
    audio_in,       \* apply: the signal handed to the filter (audio_data)
    filtered,       \* apply: the signal it returned
    original,       \* metrics: the first signal
    processed,      \* metrics: the second signal
    metric,         \* metrics: the value a metric returned
    line,           \* one line of results/summary.txt
    results,        \* the records a parser produced
    steps,          \* process_audio_pair: the steps entered so far
    written,        \* the writes to disk so far, in order, with their writer
    pairings,       \* two pairings side by side: the position of each
    recording,      \* detect_silence: the signal (sample levels in dB) and sr
    segments,       \* detect_silence: the (start, end) pairs it returned
    error           \* the exception an operation ended with, or "none"

pipelineVars == <<steps, written, pairings>>

listingVars == <<listing, noisyDir, idx, attempted, printed, summary>>

batchVars == <<listingVars, pipelineVars>>

signalVars == <<clean, noisy, threshold_db>>

sweepVars == <<clean_freqs, diff_db, noise_bands>>

applyVars == <<audio_in, filtered>>

designVars == <<filt, coefficients, applyVars>>

metricVars == <<original, processed, metric>>

summaryVars == <<line, results>>

silenceVars == <<recording, segments>>

utilVars == <<metricVars, summaryVars, silenceVars>>

vars == <<pc, batchVars, signalVars, sweepVars, spectrum, designVars, utilVars, error>>

-----------------------------------------------------------------------------
(* Bounds of the model *)

MaxFiles == 3

\* Longest signal, in samples.
MaxLen == 6

\* Most stop bands handed to BandStopFilter.
MaxBands == 2

\* Longest signal handed to a quality metric, in samples.
MaxMetricLen == 3

-----------------------------------------------------------------------------
(* Generic helpers *)

Range(s) == {s[k] : k \in DOMAIN s}

NoDuplicates(s) == \A a, b \in DOMAIN s : a # b => s[a] # s[b]

SeqsUpTo(S, n) == UNION {[1..m -> S] : m \in 0..n}

\* s[:m]
Take(s, m) == SubSeq(s, 1, IF m < Len(s) THEN m ELSE Len(s))

Abs(x) == IF x < 0 THEN -x ELSE x

RECURSIVE GCD(_, _)
GCD(a, b) == IF b = 0 THEN a ELSE GCD(b, a % b)

\* The real number num/den (den > 0) in lowest terms.
Rat(num, den) ==
    LET g == GCD(Abs(num), den) IN <<num \div g, den \div g>>

RatLess(a, b) == a[1] * b[2] < b[1] * a[2]

RatLeq(a, b) == a[1] * b[2] <= b[1] * a[2]

RatSub(a, b) == Rat(a[1] * b[2] - b[1] * a[2], a[2] * b[2])

RatMax(a, b) == IF RatLess(a, b) THEN b ELSE a

RatMin(a, b) == IF RatLess(a, b) THEN a ELSE b

\* A whole number of Hz.
Hz(f) == <<f, 1>>

\* The state of the components a specification does not run.
NoSignal == [n |-> 0, sr |-> 0, amp |-> <<>>]

NoSpectrum == [freqs |-> <<>>, amps |-> <<>>]

NoFilter == [cls |-> "none"]

NoCoefficients == [routine |-> "none"]

\* No signal has been handed to apply, and nothing returned.
NoAudio == [n |-> 0]

NoOutput == [routine |-> "none"]

IdleApply == audio_in = NoAudio /\ filtered = NoOutput

IdleDesign == filt = NoFilter /\ coefficients = NoCoefficients /\ IdleApply

NoMetric == [kind |-> "none"]

IdleMetrics == original = <<>> /\ processed = <<>> /\ metric = NoMetric

IdleSummary == line = <<>> /\ results = <<>>

\* No signal has been handed to detect_silence.
NoRecording == [amplitude_db |-> <<>>, sr |-> 0]

IdleSilence == recording = NoRecording /\ segments = <<>>

IdleUtils == IdleMetrics /\ IdleSummary /\ IdleSilence

IdleSignals == clean = NoSignal /\ noisy = NoSignal /\ threshold_db = 0

IdleSweep ==
    /\ clean_freqs = <<>>
    /\ diff_db = <<>>
    /\ noise_bands = <<>>

IdlePipeline == steps = <<>> /\ written = <<>> /\ pairings = <<>>

IdleListing ==
    /\ listing = <<>>
    /\ noisyDir = {}
    /\ idx = 0
    /\ attempted = <<>>
    /\ printed = <<>>
    /\ summary = <<>>

IdleBatch == IdleListing /\ IdlePipeline

-----------------------------------------------------------------------------
(* main.py: batch_process and the part of process_audio_pair it reaches *)

\* A directory entry, split the way os.path.splitext splits it.
FileNames ==
    { [stem |-> "a", ext |-> ".wav"], [stem |-> "b", ext |-> ".wav"],
      [stem |-> "c", ext |-> ".wav"], [stem |-> "notes", ext |-> ".txt"] }

\* file.endswith('.wav')
EndsWithWav(file) == file.ext = ".wav"

CurrentFile == listing[idx]

InitBatch ==
    /\ listing \in {s \in SeqsUpTo(FileNames, MaxFiles) : NoDuplicates(s)}
    /\ noisyDir \in SUBSET FileNames
    /\ idx = 0
    /\ pc = "batch_loop"
    /\ attempted = <<>>
    /\ printed = <<>>
    /\ summary = <<>>
    /\ IdlePipeline
    /\ IdleSignals
    /\ IdleSweep
    /\ spectrum = NoSpectrum
    /\ IdleDesign
    /\ IdleUtils
    /\ error = "none"

\* for file in os.listdir(original_dir): if file.endswith('.wav'): ...
\* up to the call of process_audio_pair inside the try block.
BatchIterate ==
    /\ pc = "batch_loop"
    /\ idx < Len(listing)
    /\ idx' = idx + 1
    /\ IF EndsWithWav(listing[idx + 1])
       THEN /\ attempted' = Append(attempted, listing[idx + 1])
            /\ pc' = "load_clean"
       ELSE /\ attempted' = attempted
            /\ pc' = "batch_loop"
    /\ UNCHANGED <<listing, noisyDir, printed, summary, pipelineVars>>
    /\ UNCHANGED <<signalVars, sweepVars, spectrum, designVars, utilVars, error>>

\* The listing is exhausted: batch_process returns.
BatchReturn ==
    /\ pc = "batch_loop"
    /\ idx = Len(listing)
    /\ pc' = "done"
    /\ UNCHANGED <<listing, noisyDir, idx, attempted, printed, summary, pipelineVars>>
    /\ UNCHANGED <<signalVars, sweepVars, spectrum, designVars, utilVars, error>>

\* Mutant of ExceptContinue: the exception leaves the loop.
ExceptAbort(file, err) ==
    /\ printed' = Append(printed, [file |-> file, error |-> err])
    /\ pc' = "done"
    /\ UNCHANGED <<listing, noisyDir, idx, attempted, summary, pipelineVars>>
    /\ UNCHANGED <<signalVars, sweepVars, spectrum, designVars, utilVars, error>>

\* except Exception as e: print(...); continue
ExceptContinue(file, err) ==
    /\ printed' = Append(printed, [file |-> file, error |-> err])
    /\ pc' = "batch_loop"
    /\ UNCHANGED <<listing, noisyDir, idx, attempted, summary, pipelineVars>>
    /\ UNCHANGED <<signalVars, sweepVars, spectrum, designVars, utilVars, error>>

\* A step of process_audio_pair that completes and moves on.
StepTo(next) ==
    /\ pc' = next
    /\ UNCHANGED <<listing, noisyDir, idx, attempted, printed, summary, pipelineVars>>
    /\ UNCHANGED <<signalVars, sweepVars, spectrum, designVars, utilVars, error>>

\* clean_audio, sr = load_audio(clean_path): the listed file decodes or
\* load_audio raises RuntimeError.
LoadClean ==
    /\ pc = "load_clean"
    /\ \E decodes \in BOOLEAN :
          IF decodes THEN StepTo("load_noisy")
          ELSE ExceptContinue(CurrentFile, "RuntimeError")

\* noisy_audio, _ = load_audio(noisy_path): the same name under the noisy
\* directory; a missing file makes load_audio raise RuntimeError.
LoadNoisy ==
    /\ pc = "load_noisy"
    /\ \E decodes \in BOOLEAN :
          IF CurrentFile \in noisyDir /\ decodes THEN StepTo("analyze")
          ELSE ExceptContinue(CurrentFile, "RuntimeError")

\* noise_bands = analyze_audio_pair(clean_path, noisy_path): it decodes both
\* files again (RuntimeError), identify_noise_bands returns or raises
\* ValueError (spectra that do not broadcast), and when that returns,
\* plot_frequency_comparison uses os, which frequency_analysis.py never
\* imports, and raises NameError.
AnalyzePair ==
    /\ pc = "analyze"
    /\ \E err \in {"RuntimeError", "ValueError", "NameError"} :
          ExceptContinue(CurrentFile, err)

NextBatch == BatchIterate \/ BatchReturn \/ LoadClean \/ LoadNoisy \/ AnalyzePair

SpecBatch == InitBatch /\ [][NextBatch]_vars

\* Every step is a synchronous call of a single thread: a step that can be
\* taken is taken.
SpecBatchFair == SpecBatch /\ WF_vars(NextBatch)

-----------------------------------------------------------------------------
(* analysis/frequency_analysis.py and analysis/frequency_survey.py *)

(***************************************************************************)
(* A real signal of n samples is given by its length, its sample rate and  *)
(* its magnitude spectrum: amp[k + 1] is |X_k| * 2/n for the bins          *)
(* k = 0 .. n \div 2; the upper bins mirror them (|X_(n-k)| = |X_k|).      *)
(* A bin either holds no energy (0) or a unit-amplitude tone (1).          *)
(***************************************************************************)
AmpLevels == {0, 1}

SampleRates == {8000, 16000}

\* 20 * log10(1e-10): the level of a bin without energy.
FloorDb == -200

\* threshold_db=20
DefaultThresholdDb == 20

Thresholds == {0, DefaultThresholdDb, 200}

Signals(n) ==
    { [n |-> n, sr |-> r, amp |-> a] :
        r \in SampleRates, a \in [1..(n \div 2 + 1) -> AmpLevels] }

SmallSignals == UNION {Signals(n) : n \in 1..MaxLen}

\* np.array([]): a signal without samples.
EmptySignals == {[n |-> 0, sr |-> r, amp |-> <<>>] : r \in SampleRates}

\* Mutant of FftRaises: the transform accepts an empty array.
FftAcceptsEmpty(audio) == FALSE

\* np.fft.fft and scipy.fft.fft raise ValueError (invalid number of data
\* points) on an array without samples.
FftRaises(audio) == audio.n = 0

\* scipy.fft.fftfreq(N, d) computes 1.0 / (N * d): ZeroDivisionError for N = 0.
FftFreqRaises(n) == n = 0

\* np.abs(np.fft.fft(audio_data))[k] * 2/n, for k in 0 .. n-1
Mag(audio, k) ==
    audio.amp[(IF k <= audio.n - k THEN k ELSE audio.n - k) + 1]

\* np.fft.fftfreq(n, 1/sample_rate): the bins 0 .. (n-1)//2, then the
\* negative ones -(n//2) .. -1, each times sample_rate/n.
FftFreq(n, sample_rate) ==
    [k \in 1..n |->
        Rat((IF k - 1 <= (n - 1) \div 2 THEN k - 1 ELSE k - 1 - n) * sample_rate, n)]

\* frequency_analysis.compute_fft
compute_fft(audio_data, sample_rate) ==
    LET n == audio_data.n
    IN  [freqs |-> Take(FftFreq(n, sample_rate), n \div 2),
         amps  |-> Take([k \in 1..n |-> Mag(audio_data, k - 1)], n \div 2)]

NonNegative(pair) == pair[1][1] >= 0

\* frequency_survey.compute_fft: the bins with freqs >= 0, with the unscaled
\* magnitude |X_k| = amplitude * n/2.
survey_compute_fft(signal, sample_rate) ==
    LET N == signal.n
        freqs == FftFreq(N, sample_rate)
        pairs == [k \in 1..N |-> <<freqs[k], Rat(Mag(signal, k - 1) * N, 2)>>]
        kept == SelectSeq(pairs, NonNegative)
    IN  [freqs |-> [k \in DOMAIN kept |-> kept[k][1]],
         amps  |-> [k \in DOMAIN kept |-> kept[k][2]]]

\* 20 * np.log10(amps + 1e-10)
ToDb(amps) == [k \in DOMAIN amps |-> IF amps[k] = 0 THEN FloorDb ELSE 0]

\* numpy broadcasting of two one-dimensional arrays
Broadcasts(a, b) == Len(a) = Len(b) \/ Len(a) = 1 \/ Len(b) = 1

\* Mutant of Subtract: the operands swapped.
SubtractSwapped(a, b) ==
    LET m == IF Len(a) = Len(b) THEN Len(a)
             ELSE IF Len(a) = 1 THEN Len(b) ELSE Len(a)
    IN  [k \in 1..m |->
            b[IF Len(b) = 1 THEN 1 ELSE k] - a[IF Len(a) = 1 THEN 1 ELSE k]]

\* a - b on numpy arrays that broadcast
Subtract(a, b) ==
    LET m == IF Len(a) = Len(b) THEN Len(a)
             ELSE IF Len(a) = 1 THEN Len(b) ELSE Len(a)
    IN  [k \in 1..m |->
            a[IF Len(a) = 1 THEN 1 ELSE k] - b[IF Len(b) = 1 THEN 1 ELSE k]]

\* Mutant of Exceeds: a bin at the threshold qualifies.
ExceedsOrEquals(db_diff, threshold) == db_diff >= threshold

\* db_diff > threshold_db
Exceeds(db_diff, threshold) == db_diff > threshold

\* (band_start, freq)
ClosedBand(start, freq) == <<start, freq>>

\* len(list(zip(freqs, diffs)))
ZipLen(freqs, diffs) == IF Len(freqs) < Len(diffs) THEN Len(freqs) ELSE Len(diffs)

\* The locals of the sweep before the loop.
SweepStart == [in_noise_band |-> FALSE, band_start |-> <<0, 1>>, noise_bands |-> <<>>]

\* Mutant of SweepBin: opening a band does not record where it starts.
SweepBinStaleStart(st, freq, db_diff, threshold) ==
    IF Exceeds(db_diff, threshold) /\ ~st.in_noise_band
    THEN [st EXCEPT !.in_noise_band = TRUE]
    ELSE IF ~Exceeds(db_diff, threshold) /\ st.in_noise_band
    THEN [st EXCEPT !.noise_bands = Append(@, ClosedBand(st.band_start, freq)),
                    !.in_noise_band = FALSE]
    ELSE st

\* The body of: for i, (freq, db_diff) in enumerate(zip(clean_freqs, diff_db))
SweepBin(st, freq, db_diff, threshold) ==
    IF Exceeds(db_diff, threshold) /\ ~st.in_noise_band
    THEN [st EXCEPT !.band_start = freq, !.in_noise_band = TRUE]
    ELSE IF ~Exceeds(db_diff, threshold) /\ st.in_noise_band
    THEN [st EXCEPT !.noise_bands = Append(@, ClosedBand(st.band_start, freq)),
                    !.in_noise_band = FALSE]
    ELSE st

\* The loop over the zipped pairs lo .. hi, in ascending order.  The range
\* is halved, and the (always true) test of st makes TLC compute the
\* incoming locals first, so that the evaluation does not nest one level per
\* bin.
RECURSIVE Sweep(_, _, _, _, _, _)
Sweep(st, freqs, diffs, threshold, lo, hi) ==
    IF st.in_noise_band \in BOOLEAN /\ lo > hi THEN st
    ELSE IF lo = hi THEN SweepBin(st, freqs[lo], diffs[lo], threshold)
    ELSE LET mid == (lo + hi) \div 2
         IN  Sweep(Sweep(st, freqs, diffs, threshold, lo, mid),
                   freqs, diffs, threshold, mid + 1, hi)

\* Mutant of SweepEnd: a band still open after the loop is dropped.
SweepEndDropsOpenBand(st, freqs) == st.noise_bands

\* After the loop: an open band is closed at clean_freqs[-1].
SweepEnd(st, freqs) ==
    IF st.in_noise_band
    THEN Append(st.noise_bands, <<st.band_start, freqs[Len(freqs)]>>)
    ELSE st.noise_bands

\* identify_noise_bands(clean_audio, noisy_audio, sample_rate, threshold_db):
\* both spectra are computed with the one sample_rate; the subtraction
\* raises ValueError when the two dB arrays do not broadcast.
identify_noise_bands(clean_audio, noisy_audio, sample_rate, threshold) ==
    LET c == compute_fft(clean_audio, sample_rate)
        z == compute_fft(noisy_audio, sample_rate)
    IN  IF ~Broadcasts(ToDb(z.amps), ToDb(c.amps))
        THEN [raised |-> TRUE, clean_freqs |-> c.freqs, diff_db |-> <<>>,
              noise_bands |-> <<>>]
        ELSE LET diffs == Subtract(ToDb(z.amps), ToDb(c.amps))
                 st == Sweep(SweepStart, c.freqs, diffs, threshold,
                             1, ZipLen(c.freqs, diffs))
             IN  [raised |-> FALSE, clean_freqs |-> c.freqs, diff_db |-> diffs,
                  noise_bands |-> SweepEnd(st, c.freqs)]

\* The scenario of 1 s at 16 kHz: a 440 Hz tone, and the same tone plus a
\* 5000 Hz tone of equal amplitude (bins are 1 Hz apart).
SineClean ==
    [n |-> 16000, sr |-> 16000, amp |-> [k \in 1..8001 |-> IF k = 441 THEN 1 ELSE 0]]

SineNoisy ==
    [n |-> 16000, sr |-> 16000,
     amp |-> [k \in 1..8001 |-> IF k \in {441, 5001} THEN 1 ELSE 0]]

InitDetect ==
    /\ pc = "analyze_pair"
    /\ \/ /\ clean \in SmallSignals
          /\ noisy \in SmallSignals
          /\ threshold_db \in Thresholds
       \/ /\ clean = SineClean
          /\ noisy = SineNoisy
          /\ threshold_db = DefaultThresholdDb
    /\ IdleSweep
    /\ IdleListing
    /\ steps = <<"decode">>
    /\ written = <<>>
    /\ pairings = <<>>
    /\ spectrum = NoSpectrum
    /\ IdleDesign
    /\ IdleUtils
    /\ error = "none"

\* analyze_audio_pair up to line 95: it loads both files, keeps the clean
\* file's rate only, and calls identify_noise_bands.
Identify ==
    /\ pc = "analyze_pair"
    /\ LET r == identify_noise_bands(clean, noisy, clean.sr, threshold_db)
       IN  /\ clean_freqs' = r.clean_freqs
           /\ diff_db' = r.diff_db
           /\ noise_bands' = r.noise_bands
           /\ IF r.raised
              THEN pc' = "raised" /\ error' = "ValueError"
              ELSE pc' = "plot" /\ error' = error
    /\ steps' = Append(steps, "detect")
    /\ UNCHANGED <<listingVars, written, pairings>>
    /\ UNCHANGED <<signalVars, spectrum, designVars, utilVars>>

\* plot_frequency_comparison(clean_audio, noisy_audio, sr): os is not
\* imported in frequency_analysis.py, so os.path.join raises NameError and
\* analyze_audio_pair returns nothing.
PlotFrequencyComparison ==
    /\ pc = "plot"
    /\ pc' = "raised"
    /\ error' = "NameError"
    /\ steps' = Append(steps, "plot_frequency_comparison")
    /\ UNCHANGED <<listingVars, written, pairings>>
    /\ UNCHANGED <<signalVars, sweepVars, spectrum, designVars, utilVars>>

NextDetect == Identify \/ PlotFrequencyComparison

SpecDetect == InitDetect /\ [][NextDetect]_vars

\* identify_noise_bands has returned noise_bands.
Returned == pc = "plot"

\* The step an exception left process_audio_pair from.
RaisedAt(step) == pc = "raised" /\ steps[Len(steps)] = step

\* The step was entered and has returned.
Completed(step) == step \in Range(steps) /\ ~RaisedAt(step)

-----------------------------------------------------------------------------
(* filters/fir_filter.py, filters/iir_filter.py, filters/band_stop_filter.py *)

(***************************************************************************)
(* A design is modelled down to the call of the scipy routine: the         *)
(* arguments the code hands over, and the routine's validation of them     *)
(* (scipy.signal.firwin, scipy.signal.iirfilter behind butter, cheby1,     *)
(* cheby2, ellip and bessel).  An accepted call returns a descriptor of    *)
(* the response it was asked for, with the band edges as fractions of the  *)
(* Nyquist frequency the routine was told (fs/2).                          *)
(***************************************************************************)

\* The result of a design that raised ValueError.
ValueError == [routine |-> "ValueError"]

\* firwin(numtaps, cutoff, pass_zero=..., window=..., fs=fs)
firwin(numtaps, cutoff, pass_zero, fs) ==
    LET edges == [k \in DOMAIN cutoff |-> Rat(cutoff[k][1] * 2, cutoff[k][2] * fs)]
        pass_nyquist == ((Len(edges) % 2 = 1) # pass_zero)
    IN  IF Len(edges) = 0 THEN ValueError
        ELSE IF \E k \in DOMAIN edges :
                    RatLeq(edges[k], <<0, 1>>) \/ RatLeq(<<1, 1>>, edges[k])
        THEN ValueError
        ELSE IF \E k \in 1..(Len(edges) - 1) : RatLeq(edges[k + 1], edges[k])
        THEN ValueError
        ELSE IF pass_nyquist /\ numtaps % 2 = 0 THEN ValueError
        ELSE [routine |-> "firwin", numtaps |-> numtaps, edges |-> edges,
              pass_zero |-> pass_zero]

\* The band types scipy's iirfilter knows, by their full names.
BandTypes == {"lowpass", "highpass", "bandpass", "bandstop"}

\* btype = band_dict[btype] in scipy's iirfilter: every name it accepts for
\* btype and the band type the name stands for; any other name is a KeyError
\* that iirfilter turns into ValueError.
band_dict ==
    [b \in {"band", "bandpass", "pass", "bp", "bs", "bandstop", "bands", "stop",
            "l", "low", "lowpass", "lp", "high", "highpass", "h", "hp"} |->
        IF b \in {"band", "bandpass", "pass", "bp"} THEN "bandpass"
        ELSE IF b \in {"bs", "bandstop", "bands", "stop"} THEN "bandstop"
        ELSE IF b \in {"l", "low", "lowpass", "lp"} THEN "lowpass"
        ELSE "highpass"]

\* butter / cheby1 / cheby2 / ellip / bessel (N, Wn, btype=..., output='sos', fs=fs)
iirfilter(ftype, N, Wn, btype, fs) ==
    LET edges == [k \in DOMAIN Wn |-> Rat(Wn[k][1] * 2, Wn[k][2] * fs)]
    IN  IF \E k \in DOMAIN edges : RatLeq(edges[k], <<0, 1>>) THEN ValueError
        ELSE IF Len(edges) > 1 /\ ~RatLess(edges[1], edges[2]) THEN ValueError
        ELSE IF btype \notin DOMAIN band_dict THEN ValueError
        ELSE IF \E k \in DOMAIN edges : RatLeq(<<1, 1>>, edges[k]) THEN ValueError
        ELSE IF band_dict[btype] \in {"lowpass", "highpass"} /\ Len(edges) # 1
        THEN ValueError
        ELSE IF band_dict[btype] \in {"bandpass", "bandstop"} /\ Len(edges) # 2
        THEN ValueError
        ELSE [routine |-> ftype, order |-> N, edges |-> edges,
              btype |-> band_dict[btype]]

\* [f / nyquist for f in self.cutoff_freq], nyquist = 0.5 * self.sample_rate
NormalizedCutoff(self) ==
    [k \in DOMAIN self.cutoff_freq |-> Rat(self.cutoff_freq[k] * 2, self.sample_rate)]

\* FIRFilter._design_filter
FIRDesign(self) ==
    IF self.filter_type = "lowpass"
    THEN firwin(self.order, NormalizedCutoff(self), TRUE, self.sample_rate)
    ELSE IF self.filter_type \in {"highpass", "bandpass", "bandstop"}
    THEN firwin(self.order, NormalizedCutoff(self), FALSE, self.sample_rate)
    ELSE ValueError

IIRTypes == {"butterworth", "cheby1", "cheby2", "ellip", "bessel"}

\* IIRFilter._design_filter
IIRDesign(self) ==
    IF self.iir_type \in IIRTypes
    THEN iirfilter(self.iir_type, self.order, NormalizedCutoff(self),
                   self.filter_type, self.sample_rate)
    ELSE ValueError

\* normalized_bands: for low, high in stop_bands:
\*   [max(0, low / nyquist), min(1.0, high / nyquist)], concatenated
NormalizedEdges(stop_bands, sample_rate) ==
    [k \in 1..(2 * Len(stop_bands)) |->
        LET band == stop_bands[(k + 1) \div 2]
        IN  IF k % 2 = 1
            THEN RatMax(<<0, 1>>, Rat(band[1][1] * 2, band[1][2] * sample_rate))
            ELSE RatMin(<<1, 1>>, Rat(band[2][1] * 2, band[2][2] * sample_rate))]

\* normalized_bands of a filter whose bands are given in whole Hz
NormalizedBands(self) ==
    NormalizedEdges([k \in DOMAIN self.stop_bands |->
                        <<Hz(self.stop_bands[k][1]), Hz(self.stop_bands[k][2])>>],
                    self.sample_rate)

\* The IIR branch: one butter(4, [low, high], 'bandstop') per band wider than
\* 0.01, in band order; a ValueError of butter leaves the loop at once.
RECURSIVE BandStopSections(_, _, _)
BandStopSections(self, bands, k) ==
    IF k > Len(bands) \div 2 THEN [raised |-> FALSE, sos |-> <<>>]
    ELSE LET low == bands[2 * k - 1]
             high == bands[2 * k]
             rest == BandStopSections(self, bands, k + 1)
         IN  IF RatLess(<<1, 100>>, RatSub(high, low))
             THEN LET s == iirfilter("butterworth", 4, <<low, high>>, "bandstop",
                                     self.sample_rate)
                  IN  IF s = ValueError \/ rest.raised
                      THEN [raised |-> TRUE, sos |-> <<>>]
                      ELSE [raised |-> FALSE, sos |-> <<s>> \o rest.sos]
             ELSE rest

\* BandStopFilter._design_filter
BandStopDesign(self) ==
    IF self.filter_type = "fir"
    THEN firwin(self.order, NormalizedBands(self), FALSE, self.sample_rate)
    ELSE LET made == BandStopSections(self, NormalizedBands(self), 1)
             sos == made.sos
         IN  IF made.raised THEN ValueError
             ELSE IF sos = <<>> THEN ValueError
             ELSE IF Len(sos) > 1
             THEN [routine |-> "sosfilt_zi", of |-> sos[Len(sos)]]
             ELSE sos[1]

CutoffsHz == {0, 1000, 4000, 9000}

\* The four documented names, a name no routine knows, and a name only
\* scipy's band_dict knows.
FilterTypes == BandTypes \cup {"notch", "stop"}

FIROrders == {100, 101, 201}

FIRFilters ==
    { [cls |-> "FIRFilter", sample_rate |-> r, cutoff_freq |-> c,
       filter_type |-> t, order |-> o] :
        r \in SampleRates,
        c \in [1..1 -> CutoffsHz] \cup [1..2 -> CutoffsHz],
        t \in FilterTypes, o \in FIROrders }

IIRFilters ==
    { [cls |-> "IIRFilter", sample_rate |-> r, cutoff_freq |-> c,
       filter_type |-> t, iir_type |-> y, order |-> 4] :
        r \in SampleRates,
        c \in [1..1 -> CutoffsHz] \cup [1..2 -> CutoffsHz],
        t \in FilterTypes, y \in IIRTypes \cup {"fir"} }

BandStopFilters ==
    { [cls |-> "BandStopFilter", sample_rate |-> r, stop_bands |-> b,
       filter_type |-> t, order |-> o] :
        r \in SampleRates,
        b \in SeqsUpTo(CutoffsHz \X CutoffsHz, MaxBands),
        t \in {"fir", "iir", "notch"}, o \in FIROrders }

InitDesign ==
    /\ pc = "construct"
    /\ filt \in FIRFilters \cup IIRFilters \cup BandStopFilters
    /\ coefficients = NoCoefficients
    /\ IdleApply
    /\ IdleSignals
    /\ IdleSweep
    /\ IdleBatch
    /\ spectrum = NoSpectrum
    /\ IdleUtils
    /\ error = "none"

\* The constructor's last line ran _design_filter to its end: the
\* coefficients are stored, or the ValueError leaves the constructor.
Finish(result) ==
    /\ IF result = ValueError
       THEN pc' = "raised" /\ error' = "ValueError" /\ coefficients' = coefficients
       ELSE pc' = "designed" /\ error' = error /\ coefficients' = result
    /\ UNCHANGED <<filt, applyVars, batchVars, signalVars, sweepVars, spectrum, utilVars>>

\* FIRFilter.__init__: self.coefficients = self._design_filter()
DesignFIR ==
    /\ pc = "construct"
    /\ filt.cls = "FIRFilter"
    /\ Finish(FIRDesign(filt))

\* IIRFilter.__init__: self.sos = self._design_filter()
DesignIIR ==
    /\ pc = "construct"
    /\ filt.cls = "IIRFilter"
    /\ Finish(IIRDesign(filt))

\* BandStopFilter.__init__: self.coefficients = self._design_filter()
DesignBandStop ==
    /\ pc = "construct"
    /\ filt.cls = "BandStopFilter"
    /\ Finish(BandStopDesign(filt))

NextDesign == DesignFIR \/ DesignIIR \/ DesignBandStop

SpecDesign == InitDesign /\ [][NextDesign]_vars

-----------------------------------------------------------------------------
(* apply of FIRFilter, IIRFilter and BandStopFilter *)

(***************************************************************************)
(* A signal handed to apply is given by its length n.  What a filtering    *)
(* routine returns is given by the routine, the passes it makes over the   *)
(* signal, and, position by position, which sample of the routine's output *)
(* sequence y stands there: samples[i] = k means that position i (counted  *)
(* from 1) holds y[k - 1].                                                 *)
(***************************************************************************)

\* _design_filter of the object's class
Designed(self) ==
    IF self.cls = "FIRFilter" THEN FIRDesign(self)
    ELSE IF self.cls = "IIRFilter" THEN IIRDesign(self)
    ELSE BandStopDesign(self)

\* The number of second-order sections of an sos design: a lowpass or
\* highpass of order N has ceil(N/2), a bandpass or bandstop has N.
Sections(sos) ==
    IF sos.btype \in {"lowpass", "highpass"} THEN (sos.order + 1) \div 2
    ELSE sos.order

\* The default padlen of sosfiltfilt: 3 * ntaps, ntaps = 2 * n_sections + 1
\* less the number of sections that are of first order (one, in a lowpass or
\* highpass of odd order).
PadLen(sos) ==
    3 * (2 * Sections(sos) + 1
           - (IF sos.btype \in {"lowpass", "highpass"} THEN sos.order % 2 ELSE 0))

\* signal.lfilter(b, 1.0, x): one forward pass, one output sample per input
\* sample.
lfilter(b, x) ==
    [routine |-> "lfilter", passes |-> <<"forward">>,
     samples |-> [k \in 1..x.n |-> k]]

\* signal.sosfilt(sos, x): the argument must be an array of sections
\* (n_sections x 6), which the array sosfilt_zi returns is not; then one
\* forward pass through the cascade.
sosfilt(sos, x) ==
    IF sos.routine = "sosfilt_zi" THEN ValueError
    ELSE [routine |-> "sosfilt", passes |-> <<"forward">>,
          samples |-> [k \in 1..x.n |-> k]]

\* signal.sosfiltfilt(sos, x): the signal must be longer than padlen; then
\* the cascade runs forward and backward.
sosfiltfilt(sos, x) ==
    IF x.n <= PadLen(sos) THEN ValueError
    ELSE [routine |-> "sosfiltfilt", passes |-> <<"forward", "backward">>,
          samples |-> [k \in 1..x.n |-> k]]

\* np.roll(a, shift) on the samples of a: position i takes the element that
\* was at position i - shift, modulo the length.
roll(a, shift) ==
    [a EXCEPT !.samples =
        [i \in 1..Len(a.samples) |->
            a.samples[((i - 1 - shift) % Len(a.samples)) + 1]]]

\* -self.order // 2: the minus sign applies first, the division floors.
RollShift(self) == (0 - self.order) \div 2

\* FIRFilter.apply
FIRApply(self, coeffs, x) == roll(lfilter(coeffs, x), RollShift(self))

\* IIRFilter.apply
IIRApply(self, sos, x) == sosfiltfilt(sos, x)

\* BandStopFilter.apply
BandStopApply(self, coeffs, x) ==
    IF self.filter_type = "fir"
    THEN roll(lfilter(coeffs, x), RollShift(self))
    ELSE sosfilt(coeffs, x)

\* The signal lengths tried on a filter: the short ones, and for a cascade
\* of sections the two lengths around sosfiltfilt's padlen.
AudioLengths(coeffs) ==
    (1..MaxLen) \cup
    (IF coeffs.routine \in IIRTypes THEN {PadLen(coeffs), PadLen(coeffs) + 1} ELSE {})

\* A filter object whose constructor returned, and a signal for it.
InitApply ==
    /\ pc = "apply"
    /\ filt \in {f \in FIRFilters \cup IIRFilters \cup BandStopFilters :
                    Designed(f) # ValueError}
    /\ coefficients = Designed(filt)
    /\ audio_in \in {[n |-> k] : k \in AudioLengths(coefficients)}
    /\ filtered = NoOutput
    /\ IdleSignals
    /\ IdleSweep
    /\ IdleBatch
    /\ spectrum = NoSpectrum
    /\ IdleUtils
    /\ error = "none"

\* apply returns the filtered signal, or the ValueError of the scipy routine
\* leaves it.
Return(result) ==
    /\ IF result = ValueError
       THEN pc' = "raised" /\ error' = "ValueError" /\ filtered' = filtered
       ELSE pc' = "applied" /\ error' = error /\ filtered' = result
    /\ UNCHANGED <<filt, coefficients, audio_in>>
    /\ UNCHANGED <<batchVars, signalVars, sweepVars, spectrum, utilVars>>

ApplyFIR ==
    /\ pc = "apply"
    /\ filt.cls = "FIRFilter"
    /\ Return(FIRApply(filt, coefficients, audio_in))

ApplyIIR ==
    /\ pc = "apply"
    /\ filt.cls = "IIRFilter"
    /\ Return(IIRApply(filt, coefficients, audio_in))

ApplyBandStop ==
    /\ pc = "apply"
    /\ filt.cls = "BandStopFilter"
    /\ Return(BandStopApply(filt, coefficients, audio_in))

NextApply == ApplyFIR \/ ApplyIIR \/ ApplyBandStop

SpecApply == InitApply /\ [][NextApply]_vars

-----------------------------------------------------------------------------
(* Claims about the application of a filter *)

Applied == pc = "applied"

\* C14: causal windowed-FIR application returns, for every order and every
\* signal length N, the forward-filtered sequence y shifted left circularly
\* by order // 2: output[i] = y[(i + order // 2) mod N], and N samples.
C14_OutputShiftedByHalfOrder ==
    (Applied /\ filtered.routine = "lfilter") =>
        /\ Len(filtered.samples) = audio_in.n
        /\ \A i \in 0..(audio_in.n - 1) :
              filtered.samples[i + 1] = ((i + filt.order \div 2) % audio_in.n) + 1

\* The object applies a cascade of second-order sections.
IsIIRApplication(self) ==
    \/ self.cls = "IIRFilter"
    \/ self.cls = "BandStopFilter" /\ self.filter_type = "iir"

ZeroPhase(output) == output.passes = <<"forward", "backward">>

\* C15: every application of an IIR design that returns a signal ran the
\* cascade forward and then backward, in IIRFilter.apply and in
\* BandStopFilter.apply with filter_type 'iir'.
C15_IIRApplicationZeroPhase ==
    (Applied /\ IsIIRApplication(filt)) => ZeroPhase(filtered)

\* order=201 in process_audio_pair
PipelineOrder == 201

\* The filter process_audio_pair builds:
\* BandStopFilter(sr, noise_bands, filter_type='fir', order=201)
IsPipelineFilter(self) ==
    /\ self.cls = "BandStopFilter"
    /\ self.filter_type = "fir"
    /\ self.order = PipelineOrder

\* C16: the filter of the per-pair pipeline is applied to the signal
\* forward and then backward, never in a single causal pass.
C16_PipelineAppliesZeroPhase ==
    (Applied /\ IsPipelineFilter(filt)) =>
        /\ filtered.passes # <<"forward">>
        /\ ZeroPhase(filtered)

\* The order of the filter as applied: the number of taps of a FIR design,
\* two per second-order section of a cascade.
EffectiveOrder(self, coeffs) ==
    IF coeffs.routine = "firwin" THEN self.order
    ELSE IF coeffs.routine \in IIRTypes THEN 2 * Sections(coeffs)
    ELSE 0

\* C17: apply returns an output only for a signal at least as long as the
\* filter's effective order; on a shorter signal it fails, for FIR as for
\* IIR application.
C17_ShortSignalRejected ==
    Applied => audio_in.n >= EffectiveOrder(filt, coefficients)

-----------------------------------------------------------------------------
(* Claims about the filter design *)

\* The cutoffs of the filter in Hz, in the order given.
CutoffsOf(self) ==
    IF self.cls = "BandStopFilter"
    THEN [k \in 1..(2 * Len(self.stop_bands)) |->
            self.stop_bands[(k + 1) \div 2][IF k % 2 = 1 THEN 1 ELSE 2]]
    ELSE self.cutoff_freq

\* A cutoff strictly between 0 Hz and sample_rate/2.
InRange(self, f) == 0 < f /\ 2 * f < self.sample_rate

\* The cutoffs come as (low, high) pairs.
Paired(self) == self.cls = "BandStopFilter" \/ Len(self.cutoff_freq) = 2

ValidCutoffs(self) ==
    LET c == CutoffsOf(self)
    IN  /\ \A k \in DOMAIN c : InRange(self, c[k])
        /\ Paired(self) => \A k \in 1..(Len(c) \div 2) : c[2 * k - 1] < c[2 * k]

\* The k-th interval between the band edges of a windowed-FIR request
\* (interval 0 starts at 0 Hz, interval k at the k-th edge) is a pass band:
\* firwin alternates pass and stop, starting with pass iff pass_zero.
PassesInterval(request, k) == (k % 2 = 0) = request.pass_zero

\* A windowed-FIR bandstop design.
IsFirBandstop(self) ==
    \/ self.cls = "FIRFilter" /\ self.filter_type = "bandstop"
    \/ self.cls = "BandStopFilter" /\ self.filter_type = "fir"

\* C11: a windowed-FIR bandstop design requests a response that passes 0 Hz
\* and every interval outside the given bands and stops the bands (the
\* intervals between the 1st and 2nd edge, the 3rd and 4th, ...); and for
\* the same cutoffs FIRFilter's bandstop request differs from its bandpass
\* request.
C11_BandstopRequestStopsTheBands ==
    (pc = "designed" /\ IsFirBandstop(filt)) =>
        /\ coefficients.routine = "firwin"
        /\ \A k \in 0..Len(coefficients.edges) :
              PassesInterval(coefficients, k) = (k % 2 = 0)
        /\ filt.cls = "FIRFilter" =>
              coefficients # FIRDesign([filt EXCEPT !.filter_type = "bandpass"])

\* The per-band designs a coefficient value holds, in order.
SectionsOf(coeffs) == IF coeffs.routine = "butterworth" THEN <<coeffs>> ELSE <<>>

\* C12: for an IIR bandstop design over two or more bands the coefficients
\* are the per-band section lists, concatenated in band order: as many as
\* were designed, and each of them present.
C12_MultiBandSectionsConcatenated ==
    (/\ pc = "designed"
     /\ filt.cls = "BandStopFilter"
     /\ filt.filter_type = "iir"
     /\ Len(filt.stop_bands) >= 2) =>
        SectionsOf(coefficients) = BandStopSections(filt, NormalizedBands(filt), 1).sos

\* The family and response-type names the classes document.
SupportedNames(self) ==
    IF self.cls = "FIRFilter" THEN self.filter_type \in BandTypes
    ELSE IF self.cls = "IIRFilter"
    THEN self.iir_type \in IIRTypes /\ self.filter_type \in BandTypes
    ELSE self.filter_type \in {"fir", "iir"}

\* C13: a design with a family name or a response-type name outside the
\* supported sets fails; it never produces coefficients.
C13_UnsupportedNamesRejected ==
    pc = "designed" => SupportedNames(filt)

\* C10: a design produces coefficients only when every cutoff is strictly
\* between 0 Hz and sample_rate/2 and every paired cutoff has low < high;
\* otherwise it fails, for FIRFilter, IIRFilter and BandStopFilter alike.
C10_InvalidCutoffsRejected ==
    pc = "designed" => ValidCutoffs(filt)

\* The band edges a design was asked for, in Hz, as fractions of fs/2.
RequestedEdges(self) ==
    IF self.cls = "BandStopFilter"
    THEN [k \in 1..(2 * Len(self.stop_bands)) |->
            Rat(self.stop_bands[(k + 1) \div 2][2 - (k % 2)] * 2, self.sample_rate)]
    ELSE [k \in DOMAIN self.cutoff_freq |->
            Rat(self.cutoff_freq[k] * 2, self.sample_rate)]

\* C24: every design divides a cutoff of f Hz by the Nyquist frequency
\* exactly once on the way to the design routine, so that the designed band
\* edge is at the requested frequency: the normalized edge is f / (fs/2).
C24_EdgesAtRequestedFrequency ==
    (pc = "designed" /\ coefficients.routine # "sosfilt_zi") =>
        coefficients.edges = RequestedEdges(filt)

-----------------------------------------------------------------------------
(* Claims about the batch run *)

\* The .wav entries among the first k entries of the listing, in order.
WavEntries(k) == SelectSeq(SubSeq(listing, 1, k), EndsWithWav)

BatchDone == pc = "done"

\* C1 (as stated): every listed entry is attempted exactly once, in listing
\* order, whatever fails, and the batch ends after the last entry.
C1_EveryListedEntryAttempted == BatchDone => attempted = listing

\* C1 (amended): the entries handed to process_audio_pair are, at every
\* moment, exactly the .wav entries among the listing entries taken so far,
\* once each and in listing order (entries with another extension are
\* skipped); the batch returns only after the last entry has been taken,
\* whichever pairings raised; and it does return.
C1_WavEntriesAttemptedInOrder ==
    /\ [](attempted = WavEntries(idx))
    /\ [](BatchDone => idx = Len(listing))
    /\ <>BatchDone

\* C1 witness: a finished batch over three entries, one skipped, in which
\* the first attempted pairing failed and a later one was still attempted.
C1_FailureThenNextAttempted ==
    /\ BatchDone
    /\ Len(listing) = 3
    /\ Len(attempted) = 2
    /\ Len(printed) = 2
    /\ printed[1].file = attempted[1]
    /\ printed[2].file = attempted[2]

\* C2: a name handed to the per-pair pipeline is present in both the clean
\* and the noisy directory; a name present in only one of them is never
\* handed to it.
C2_OnlyCommonNamesAttempted ==
    \A k \in DOMAIN attempted :
        attempted[k] \in Range(listing) /\ attempted[k] \in noisyDir

\* C3: after a batch run the summary holds one entry per processed pairing,
\* the k-th entry belonging to the k-th pairing in discovery order.
C3_SummaryHoldsEveryPairing ==
    BatchDone =>
        /\ Len(summary) = Len(attempted)
        /\ \A k \in DOMAIN summary : summary[k].file = attempted[k]

-----------------------------------------------------------------------------
(* The two compute_fft implementations applied to one signal *)

InitFFT ==
    /\ pc = "fft_input"
    /\ clean \in SmallSignals \cup EmptySignals
    /\ noisy = NoSignal
    /\ threshold_db = 0
    /\ IdleSweep
    /\ IdleBatch
    /\ spectrum = NoSpectrum
    /\ IdleDesign
    /\ IdleUtils
    /\ error = "none"

\* freqs, amplitudes = frequency_analysis.compute_fft(audio, sr): the
\* transform of line 14 raises before anything is returned.
AnalysisComputeFft ==
    /\ pc = "fft_input"
    /\ IF FftRaises(clean)
       THEN /\ pc' = "raised"
            /\ error' = "ValueError"
            /\ UNCHANGED spectrum
       ELSE /\ spectrum' = compute_fft(clean, clean.sr)
            /\ pc' = "fft_analysis"
            /\ UNCHANGED error
    /\ UNCHANGED <<batchVars, signalVars, sweepVars, designVars, utilVars>>

\* freqs, mag = frequency_survey.compute_fft(signal, sr): fftfreq of line 9
\* comes first, then the transform of line 10.
SurveyComputeFft ==
    /\ pc = "fft_input"
    /\ IF FftFreqRaises(clean.n)
       THEN /\ pc' = "raised"
            /\ error' = "ZeroDivisionError"
            /\ UNCHANGED spectrum
       ELSE IF FftRaises(clean)
       THEN /\ pc' = "raised"
            /\ error' = "ValueError"
            /\ UNCHANGED spectrum
       ELSE /\ spectrum' = survey_compute_fft(clean, clean.sr)
            /\ pc' = "fft_survey"
            /\ UNCHANGED error
    /\ UNCHANGED <<batchVars, signalVars, sweepVars, designVars, utilVars>>

NextFFT == AnalysisComputeFft \/ SurveyComputeFft

SpecFFT == InitFFT /\ [][NextFFT]_vars

-----------------------------------------------------------------------------
(* Claims about the spectrum and the noise-band detection *)

Nyquist == Rat(clean.sr, 2)

Contains(band, f) == RatLeq(band[1], f) /\ RatLeq(f, band[2])

\* C4: the bands of identify_noise_bands are ascending by low_hz and
\* pairwise non-overlapping: each band's high is below the next band's low.
C4_BandsAscendingDisjoint ==
    \A k \in 1..(Len(noise_bands) - 1) :
        /\ RatLess(noise_bands[k][1], noise_bands[k + 1][1])
        /\ RatLess(noise_bands[k][2], noise_bands[k + 1][1])

\* C4 witness: two equal-length signals for which two bands are returned.
C4_TwoBandsReturned ==
    Returned /\ clean.n = noisy.n /\ Len(noise_bands) >= 2

\* C5: every band of identify_noise_bands has low_hz < high_hz <= sample_rate/2,
\* also the band that is still open when the sweep reaches the last bin.
C5_BandsWellFormed ==
    \A k \in DOMAIN noise_bands :
        /\ RatLess(noise_bands[k][1], noise_bands[k][2])
        /\ RatLeq(noise_bands[k][2], Nyquist)

\* C6: identify_noise_bands on the same signal as clean and noisy returns no
\* band, for every signal length and every non-negative threshold.
C6_IdenticalSignalsNoBands ==
    (Returned /\ noisy = clean /\ threshold_db >= 0) => noise_bands = <<>>

\* C6 witness: a signal with energy, compared with itself at 20 dB.
C6_IdenticalSignalsCompared ==
    /\ Returned
    /\ noisy = clean
    /\ clean.n = MaxLen
    /\ threshold_db = DefaultThresholdDb
    /\ \E k \in DOMAIN clean.amp : clean.amp[k] = 1
    /\ \E k \in DOMAIN clean.amp : clean.amp[k] = 0

\* C7: for 1 s of a 440 Hz tone at 16 kHz against the same plus a 5000 Hz
\* tone, threshold 20 dB, exactly one band is returned; it contains 5000 Hz
\* and does not contain 440 Hz.
C7_SineScenarioOneBand ==
    (Returned /\ clean = SineClean /\ noisy = SineNoisy) =>
        /\ Len(noise_bands) = 1
        /\ Contains(noise_bands[1], Hz(5000))
        /\ ~Contains(noise_bands[1], Hz(440))

\* C7 witness: the scenario has been swept to the end.
C7_SineScenarioReturned ==
    /\ Returned
    /\ clean = SineClean
    /\ noisy = SineNoisy
    /\ threshold_db = DefaultThresholdDb
    /\ Len(diff_db) = 8000

\* C8: compute_fft, in both implementations, returns ceil(N/2) frequency
\* bins, non-negative and strictly ascending, with one magnitude per bin.
C8_SpectrumHasCeilHalfBins ==
    pc \in {"fft_analysis", "fft_survey"} =>
        /\ Len(spectrum.freqs) = (clean.n + 1) \div 2
        /\ Len(spectrum.amps) = Len(spectrum.freqs)
        /\ \A k \in DOMAIN spectrum.freqs : RatLeq(Hz(0), spectrum.freqs[k])
        /\ \A k \in 1..(Len(spectrum.freqs) - 1) :
              RatLess(spectrum.freqs[k], spectrum.freqs[k + 1])

\* C9: noise-band detection returns nothing (it fails) when the clean and the
\* noisy input differ in signal length or in sample rate.
C9_IncompatibleInputsRejected ==
    Returned => (clean.n = noisy.n /\ clean.sr = noisy.sr)

\* The bins the sweep visits: the pairs of zip(clean_freqs, diff_db).
Bins == 1..ZipLen(clean_freqs, diff_db)

Qualifies(k) == diff_db[k] > threshold_db

\* The first bins of the maximal runs of qualifying bins.
RunStarts == {k \in Bins : Qualifies(k) /\ (k = 1 \/ ~Qualifies(k - 1))}

\* The last bin of the maximal run that starts at bin s.
RunLast(s) ==
    CHOOSE e \in s..ZipLen(clean_freqs, diff_db) :
        /\ \A j \in s..e : Qualifies(j)
        /\ (e = ZipLen(clean_freqs, diff_db) \/ ~Qualifies(e + 1))

\* From the frequency of the run's first bin to the frequency of the first
\* bin after the run, or of the last bin when the run ends the spectrum.
RunBand(s) ==
    <<clean_freqs[s],
      IF RunLast(s) < ZipLen(clean_freqs, diff_db)
      THEN clean_freqs[RunLast(s) + 1]
      ELSE clean_freqs[ZipLen(clean_freqs, diff_db)]>>

\* C23: the bands of identify_noise_bands correspond one to one, in order, to
\* the maximal runs of consecutive bins with diff_db > threshold_db (a bin at
\* the threshold does not qualify): the k-th band goes from the frequency of
\* the k-th run's first bin to the frequency of the first bin after the run,
\* or to the last bin's frequency when the run reaches the end.
C23_BandsAreTheMaximalRuns ==
    Returned =>
        /\ Len(noise_bands) = Cardinality(RunStarts)
        /\ \A s \in RunStarts :
              noise_bands[Cardinality({t \in RunStarts : t <= s})] = RunBand(s)

\* C23 witness: two runs, the second one reaching the last bin, separated by
\* a bin whose difference equals the threshold.
C23_TwoRunsAroundBinAtThreshold ==
    /\ Returned
    /\ Cardinality(RunStarts) = 2
    /\ Qualifies(Len(clean_freqs))
    /\ \E k \in 2..(Len(clean_freqs) - 1) :
          diff_db[k] = threshold_db /\ Qualifies(k - 1) /\ Qualifies(k + 1)

\* C22: the spectrum operation fails with an error, and returns no spectrum,
\* when the input signal is empty (N = 0), in both implementations.
C22_EmptySignalRaises ==
    (clean.n = 0 /\ pc # "fft_input") =>
        (pc = "raised" /\ error # "none" /\ spectrum = NoSpectrum)

\* C22 witness: frequency_survey.compute_fft has failed on an empty signal.
C22_SurveyRaisedOnEmpty ==
    pc = "raised" /\ clean.n = 0 /\ error = "ZeroDivisionError"

-----------------------------------------------------------------------------
(* utils/metrics.py *)

(***************************************************************************)
(* The signals are numpy arrays of integer-valued samples, so that every   *)
(* energy and every mean is an exact rational.  A metric returns a number, *)
(* +inf, -inf, nan, or the decibel value 10 * log10(r) of a positive       *)
(* rational r, which is kept as r.                                         *)
(***************************************************************************)
SampleValues == {-1, 0, 1}

MetricSignals == UNION {[1..n -> SampleValues] : n \in 1..MaxMetricLen}

Number(r) == [kind |-> "number", value |-> r]

Inf == [kind |-> "inf"]

NegInf == [kind |-> "-inf"]

NaN == [kind |-> "nan"]

\* 10 * np.log10(r) for r >= 0
Decibel(r) == IF r[1] = 0 THEN NegInf ELSE [kind |-> "decibel", of |-> r]

\* a**2
Square(a) == [k \in DOMAIN a |-> a[k] * a[k]]

\* np.sum(a)
RECURSIVE Sum(_)
Sum(a) == IF a = <<>> THEN 0 ELSE a[1] + Sum(Tail(a))

\* np.mean(a): nan for an empty array
Mean(a) == IF a = <<>> THEN NaN ELSE Number(Rat(Sum(a), Len(a)))

\* x < 1e-10 for a non-negative rational whose denominator is a signal
\* length: such a value is 0 or at least 1/MaxMetricLen.
BelowEpsilon(r) == r[1] <= 0

\* Mutant of NoiseEnergy: the clean signal is not subtracted.
NoiseEnergyOfNoisy(clean_signal, noisy_signal) == Sum(Square(noisy_signal))

\* np.sum((noisy_signal - clean_signal)**2)
NoiseEnergy(clean_signal, noisy_signal) ==
    Sum(Square(Subtract(noisy_signal, clean_signal)))

\* calculate_snr
calculate_snr(clean_signal, noisy_signal) ==
    LET signal_energy == Sum(Square(clean_signal))
        noise_energy == NoiseEnergy(clean_signal, noisy_signal)
    IN  IF ~Broadcasts(noisy_signal, clean_signal) THEN ValueError
        ELSE IF BelowEpsilon(<<noise_energy, 1>>) THEN Inf
        ELSE Decibel(Rat(signal_energy, noise_energy))

\* calculate_mse
calculate_mse(orig, proc) ==
    IF ~Broadcasts(orig, proc) THEN ValueError
    ELSE Mean(Square(Subtract(orig, proc)))

\* calculate_psnr with max_val=1.0:
\* 20 * log10(1 / sqrt(mse)) = 10 * log10(1 / mse)
calculate_psnr(orig, proc) ==
    LET mse == calculate_mse(orig, proc)
    IN  IF mse = ValueError THEN ValueError
        ELSE IF BelowEpsilon(mse.value) THEN Inf
        ELSE Decibel(Rat(mse.value[2], mse.value[1]))

\* spectral_distance: the two power spectra have len // 2 bins each; their
\* difference must broadcast; the mean over no bin is nan.  The distance
\* itself is kept as the number of bins it is taken over.
spectral_distance(orig, proc) ==
    LET orig_power == [k \in 1..(Len(orig) \div 2) |-> 0]
        proc_power == [k \in 1..(Len(proc) \div 2) |-> 0]
    IN  IF ~Broadcasts(orig_power, proc_power) THEN ValueError
        ELSE IF Subtract(orig_power, proc_power) = <<>> THEN NaN
        ELSE [kind |-> "lsd", bins |-> Len(Subtract(orig_power, proc_power))]

InitMetrics ==
    /\ pc = "metrics"
    /\ original \in MetricSignals
    /\ processed \in MetricSignals
    /\ metric = NoMetric
    /\ IdleSummary
    /\ IdleSilence
    /\ IdleSignals
    /\ IdleSweep
    /\ IdleBatch
    /\ spectrum = NoSpectrum
    /\ IdleDesign
    /\ error = "none"

\* The metric returns its value, or the ValueError of the subtraction
\* leaves it.
Evaluate(name, result) ==
    /\ IF result = ValueError
       THEN pc' = "raised" /\ error' = "ValueError" /\ metric' = metric
       ELSE pc' = name /\ error' = error /\ metric' = result
    /\ UNCHANGED <<original, processed, summaryVars, silenceVars>>
    /\ UNCHANGED <<batchVars, signalVars, sweepVars, spectrum, designVars>>

\* calculate_snr(original, processed)
Snr ==
    /\ pc = "metrics"
    /\ Evaluate("calculate_snr", calculate_snr(original, processed))

\* calculate_mse(original, processed)
Mse ==
    /\ pc = "metrics"
    /\ Evaluate("calculate_mse", calculate_mse(original, processed))

\* calculate_psnr(original, processed)
Psnr ==
    /\ pc = "metrics"
    /\ Evaluate("calculate_psnr", calculate_psnr(original, processed))

\* spectral_distance(original, processed, sr)
SpectralDistance ==
    /\ pc = "metrics"
    /\ Evaluate("spectral_distance", spectral_distance(original, processed))

NextMetrics == Snr \/ Mse \/ Psnr \/ SpectralDistance

SpecMetrics == InitMetrics /\ [][NextMetrics]_vars

-----------------------------------------------------------------------------
(* Claims about the quality metrics *)

MetricNames == {"calculate_snr", "calculate_mse", "calculate_psnr", "spectral_distance"}

\* C18: for every non-empty signal x, calculate_mse(x, x) is 0 and
\* calculate_snr(x, x) is +infinity.
C18_IdenticalSignalsPerfectScore ==
    /\ (pc = "calculate_mse" /\ processed = original) => metric = Number(<<0, 1>>)
    /\ (pc = "calculate_snr" /\ processed = original) => metric = Inf

\* C18 witness: calculate_snr has returned for a signal of the greatest
\* length, with energy, against itself.
C18_SnrOfSignalWithItself ==
    /\ pc = "calculate_snr"
    /\ processed = original
    /\ Len(original) = MaxMetricLen
    /\ \E k \in DOMAIN original : original[k] # 0

\* C19: a quality metric returns a value only for two signals of the same
\* length; for any two different lengths, a length of 1 included, each of
\* the four metrics fails.
C19_LengthMismatchRejected ==
    pc \in MetricNames => Len(original) = Len(processed)

-----------------------------------------------------------------------------
(* utils/summary_from_txt.py and utils/summary_visualization.py *)

(***************************************************************************)
(* Text is a sequence of one-character strings.  A line of the summary     *)
(* file is kept together with the entry it was written from.  No code      *)
(* under src/ writes the file; the line is written as the specification    *)
(* gives its format:                                                       *)
(*   <filename>: MSE=<mse>, SNR=<snr_db>, Corr=<correlation>               *)
(* with 4, 2 and 3 decimal places.                                         *)
(***************************************************************************)
Digit == <<"0", "1", "2", "3", "4", "5", "6", "7", "8", "9">>

DigitChars == Range(Digit)

DigitValue(c) == (CHOOSE d \in 1..10 : Digit[d] = c) - 1

RECURSIVE Pow10(_)
Pow10(p) == IF p = 0 THEN 1 ELSE 10 * Pow10(p - 1)

\* The decimal digits of n >= 0.
RECURSIVE Digits(_)
Digits(n) ==
    IF n < 10 THEN <<Digit[n + 1]>>
    ELSE Append(Digits(n \div 10), Digit[(n % 10) + 1])

RECURSIVE ZeroPad(_, _)
ZeroPad(t, width) == IF Len(t) >= width THEN t ELSE ZeroPad(<<"0">> \o t, width)

\* f"{value:.<places>f}": inf and nan are written by name; a number is
\* rounded to the given number of places.
FormatFixed(value, places) ==
    IF value = Inf THEN <<"i", "n", "f">>
    ELSE IF value = NegInf THEN <<"-", "i", "n", "f">>
    ELSE IF value = NaN THEN <<"n", "a", "n">>
    ELSE LET r == value.value
             scaled == (2 * Abs(r[1]) * Pow10(places) + r[2]) \div (2 * r[2])
         IN  (IF r[1] < 0 THEN <<"-">> ELSE <<>>)
             \o Digits(scaled \div Pow10(places)) \o <<".">>
             \o ZeroPad(Digits(scaled % Pow10(places)), places)

\* ": MSE=", ", SNR=" and ", Corr="
MseLabel == <<":", " ", "M", "S", "E", "=">>

SnrLabel == <<",", " ", "S", "N", "R", "=">>

CorrLabel == <<",", " ", "C", "o", "r", "r", "=">>

\* The line written for an entry, with the newline that ends it.
SummaryLine(entry) ==
    entry.file \o MseLabel \o FormatFixed(entry.mse, 4)
    \o SnrLabel \o FormatFixed(entry.snr, 2)
    \o CorrLabel \o FormatFixed(entry.corr, 3) \o <<"\n">>

Whitespace == {" ", "\n"}

\* str.strip()
RECURSIVE Strip(_)
Strip(t) ==
    IF t = <<>> THEN t
    ELSE IF t[1] \in Whitespace THEN Strip(Tail(t))
    ELSE IF t[Len(t)] \in Whitespace THEN Strip(SubSeq(t, 1, Len(t) - 1))
    ELSE t

\* t.split(sep) for a one-character separator
RECURSIVE Split(_, _)
Split(t, sep) ==
    IF \A k \in DOMAIN t : t[k] # sep THEN <<t>>
    ELSE LET at == CHOOSE k \in DOMAIN t :
                       t[k] = sep /\ \A j \in 1..(k - 1) : t[j] # sep
         IN  <<SubSeq(t, 1, at - 1)>> \o Split(SubSeq(t, at + 1, Len(t)), sep)

\* The value of a sequence of digits.
RECURSIVE DigitsValue(_)
DigitsValue(t) ==
    IF t = <<>> THEN 0
    ELSE 10 * DigitsValue(SubSeq(t, 1, Len(t) - 1)) + DigitValue(t[Len(t)])

\* float(text): surrounding whitespace is ignored; an optional sign, then
\* inf, nan, or digits with at most one point; anything else is ValueError.
float(text) ==
    LET t == Strip(text)
        neg == t # <<>> /\ t[1] = "-"
        body == IF neg THEN Tail(t) ELSE t
        parts == Split(body, ".")
        whole == parts[1]
        frac == IF Len(parts) = 2 THEN parts[2] ELSE <<>>
    IN  IF body = <<"i", "n", "f">> THEN (IF neg THEN NegInf ELSE Inf)
        ELSE IF body = <<"n", "a", "n">> THEN NaN
        ELSE IF Len(parts) > 2 THEN ValueError
        ELSE IF whole \o frac = <<>> THEN ValueError
        ELSE IF \E k \in DOMAIN (whole \o frac) : (whole \o frac)[k] \notin DigitChars
        THEN ValueError
        ELSE Number(Rat((IF neg THEN -1 ELSE 1)
                          * (DigitsValue(whole) * Pow10(Len(frac)) + DigitsValue(frac)),
                        Pow10(Len(frac))))

\* The character class [-\d.]
NumClass == DigitChars \cup {"-", "."}

\* The last position of the longest run of NumClass characters that starts
\* at from (from - 1 when there is none).
RECURSIVE RunEnd(_, _)
RunEnd(t, from) ==
    IF from <= Len(t) /\ t[from] \in NumClass THEN RunEnd(t, from + 1)
    ELSE from - 1

StartsWith(t, from, literal) ==
    /\ from + Len(literal) - 1 <= Len(t)
    /\ SubSeq(t, from, from + Len(literal) - 1) = literal

\* The pattern after the first group, tried with the first group ending at
\* position last: a literal, a greedy run of [-\d.] (which, followed by a
\* literal that starts with a comma, has to be the longest run), and so on.
MatchAfter(t, last) ==
    LET mse_from == last + 1 + Len(MseLabel)
        mse_to == RunEnd(t, mse_from)
        snr_from == mse_to + 1 + Len(SnrLabel)
        snr_to == RunEnd(t, snr_from)
        corr_from == snr_to + 1 + Len(CorrLabel)
        corr_to == RunEnd(t, corr_from)
    IN  IF /\ StartsWith(t, last + 1, MseLabel)
           /\ mse_to >= mse_from
           /\ StartsWith(t, mse_to + 1, SnrLabel)
           /\ snr_to >= snr_from
           /\ StartsWith(t, snr_to + 1, CorrLabel)
           /\ corr_to >= corr_from
        THEN [matched |-> TRUE,
              groups |-> <<SubSeq(t, 1, last), SubSeq(t, mse_from, mse_to),
                           SubSeq(t, snr_from, snr_to),
                           SubSeq(t, corr_from, corr_to)>>]
        ELSE [matched |-> FALSE, groups |-> <<>>]

\* re.match(r"(.+?): MSE=([-\d.]+), SNR=([-\d.]+), Corr=([-\d.]+)", t):
\* the first group is the shortest non-empty prefix after which the rest
\* of the pattern matches.
re_match(t) ==
    LET ends == {last \in 1..Len(t) : MatchAfter(t, last).matched}
    IN  IF ends = {} THEN [matched |-> FALSE, groups |-> <<>>]
        ELSE MatchAfter(t, CHOOSE last \in ends : \A other \in ends : last <= other)

\* What parse_summary_txt does with one line of the file: the records it
\* appends to results, or the ValueError of float() leaves it.
parse_summary_txt(text) ==
    LET match == re_match(Strip(text))
        mse == float(match.groups[2])
        snr == float(match.groups[3])
        corr == float(match.groups[4])
    IN  IF ~match.matched THEN [raised |-> FALSE, results |-> <<>>]
        ELSE IF ValueError \in {mse, snr, corr}
        THEN [raised |-> TRUE, results |-> <<>>]
        ELSE [raised |-> FALSE,
              results |-> <<[file |-> match.groups[1], mse |-> mse, snr |-> snr,
                             corr |-> corr]>>]

\* field.split("=")[1]; a field without "=" (an IndexError in the code)
\* gives a text that float() rejects, and either exception is swallowed.
AfterEquals(field) ==
    IF Len(Split(field, "=")) < 2 THEN <<"?">> ELSE Split(field, "=")[2]

\* parse_summary_line of summary_visualization.py: the record, as a list
\* of one, or the empty list for None (any exception is swallowed).
parse_summary_line(text) ==
    LET halves == Split(Strip(text), ":")
        parts == Split(Strip(halves[2]), ",")
        mse == float(AfterEquals(parts[1]))
        snr == float(AfterEquals(parts[2]))
        corr == float(AfterEquals(parts[3]))
    IN  IF Len(halves) # 2 THEN <<>>
        ELSE IF Len(parts) < 3 THEN <<>>
        ELSE IF ValueError \in {mse, snr, corr} THEN <<>>
        ELSE <<[file |-> halves[1], mse |-> mse, snr |-> snr, corr |-> corr]>>

SummaryFiles == {<<"a", ".", "w", "a", "v">>, <<"b", "-", "2", ".", "w", "a", "v">>}

\* Values a quality evaluation can write: MSE to 4 places, SNR in dB to 2
\* places or +inf, correlation to 3 places.
MseValues == {Number(<<0, 1>>), Number(Rat(25, 10000)), Number(Rat(12345, 10000))}

SnrValues == {Inf, Number(Rat(-1250, 100)), Number(<<0, 1>>), Number(Rat(1234, 100))}

CorrValues == {Number(<<-1, 1>>), Number(<<0, 1>>), Number(Rat(987, 1000)), Number(<<1, 1>>)}

SummaryEntries ==
    [file : SummaryFiles, mse : MseValues, snr : SnrValues, corr : CorrValues]

InitSummary ==
    /\ pc = "summary_line"
    /\ line \in {[entry |-> e, text |-> SummaryLine(e)] : e \in SummaryEntries}
    /\ results = <<>>
    /\ IdleMetrics
    /\ IdleSilence
    /\ IdleSignals
    /\ IdleSweep
    /\ IdleBatch
    /\ spectrum = NoSpectrum
    /\ IdleDesign
    /\ error = "none"

\* parse_summary_txt on a file that holds the line
ParseSummaryTxt ==
    /\ pc = "summary_line"
    /\ LET parsed == parse_summary_txt(line.text)
       IN  IF parsed.raised
           THEN pc' = "raised" /\ error' = "ValueError" /\ results' = results
           ELSE pc' = "parse_summary_txt" /\ error' = error
                /\ results' = parsed.results
    /\ UNCHANGED <<line, metricVars, silenceVars>>
    /\ UNCHANGED <<batchVars, signalVars, sweepVars, spectrum, designVars>>

\* generate_summary_plots: parsed = [parse_summary_line(line) ...] on a file
\* that holds the line
ParseSummaryLine ==
    /\ pc = "summary_line"
    /\ pc' = "parse_summary_line"
    /\ results' = parse_summary_line(line.text)
    /\ UNCHANGED <<line, metricVars, silenceVars, error>>
    /\ UNCHANGED <<batchVars, signalVars, sweepVars, spectrum, designVars>>

NextSummary == ParseSummaryTxt \/ ParseSummaryLine

SpecSummary == InitSummary /\ [][NextSummary]_vars

-----------------------------------------------------------------------------
(* Claims about the summary file *)

\* C20: every summary line in the format, for every value a quality
\* evaluation can return (an SNR of +infinity and negative values included),
\* is accepted by parse_summary_txt and yields one record with the entry's
\* file name and its three values; no line is dropped.
C20_SummaryLineRoundTrip ==
    pc = "parse_summary_txt" => results = <<line.entry>>

-----------------------------------------------------------------------------
(* main.py: process_audio_pair, from the detected bands to the design *)

\* bsf = BandStopFilter(sr, noise_bands, filter_type='fir', order=201): the
\* constructor's _design_filter on the bands the detection returned.
PipelineDesign(sample_rate, bands) ==
    firwin(PipelineOrder, NormalizedEdges(bands, sample_rate), FALSE, sample_rate)

\* bands[0][0], bands[0][1], bands[1][0], ...
Flattened(bands) ==
    [k \in 1..(2 * Len(bands)) |-> bands[(k + 1) \div 2][2 - (k % 2)]]

\* C27: every band sequence identify_noise_bands returns is a valid input to
\* the pipeline's design (BandStopFilter, FIR, order 201): every band edge is
\* strictly between 0 Hz and Nyquist, the flattened edge list is strictly
\* increasing, and the design does not fail.
C27_DesignAcceptsDetectorOutput ==
    Returned =>
        LET edges == Flattened(noise_bands)
        IN  /\ \A k \in DOMAIN edges :
                  RatLess(Hz(0), edges[k]) /\ RatLess(edges[k], Nyquist)
            /\ \A k \in 1..(Len(edges) - 1) : RatLess(edges[k], edges[k + 1])
            /\ PipelineDesign(clean.sr, noise_bands) # ValueError

\* Both files decoded with equal length and sample rate, and the detected
\* bands are accepted by the design.
ValidPairing ==
    /\ clean.n = noisy.n
    /\ clean.sr = noisy.sr
    /\ PipelineDesign(clean.sr, noise_bands) # ValueError

\* C26: for a pairing whose files decode with equal length and sample rate
\* and whose detected bands form a valid filter specification,
\* process_audio_pair goes through every step and returns without raising.
C26_ValidPairingReturns == ValidPairing => pc # "raised"

\* C28: when the detection returns no band, process_audio_pair raises at the
\* filter design, before any filtered output is written.
C28_EmptyDetectionRaisesAtDesign ==
    (pc = "raised" /\ Completed("detect") /\ noise_bands = <<>>) =>
        (RaisedAt("design") /\ written = <<>>)

-----------------------------------------------------------------------------
(* main.py: process_audio_pair after the call of analyze_audio_pair *)

(***************************************************************************)
(* The statements of process_audio_pair from line 30 on, entered with the  *)
(* two decoded signals and the bands identify_noise_bands returned for     *)
(* them.  The call of analyze_audio_pair itself is the subject of the      *)
(* detection specification, where plot_frequency_comparison raises.        *)
(* A path is the sequence of its components.                               *)
(***************************************************************************)

\* os.path.join(output_base_dir, os.path.splitext(file)[0]) with OUTPUT_DIR
OutputDir(stem) == <<"results", stem>>

\* os.path.join(output_dir, 'filtered_' + os.path.basename(noisy_path))
FilteredPath(stem) == OutputDir(stem) \o <<"filtered_", stem, ".wav">>

\* os.path.join('results', 'plots', 'comprehensive_analysis.png')
ComprehensivePath == <<"results", "plots", "comprehensive_analysis.png">>

\* A write of a file, and the pairing whose processing made it.
Written(path, stem) == [path |-> path, by |-> stem]

\* noverlap=256 of signal.spectrogram in plot_comprehensive_analysis
SpectrogramOverlap == 256

\* An array of n samples.
Shape(n) == [k \in 1..n |-> 0]

\* BandStopFilter(sr, noise_bands, filter_type='fir', order=201)
PipelineFilter(sample_rate, bands) ==
    [cls |-> "BandStopFilter", sample_rate |-> sample_rate, stop_bands |-> bands,
     filter_type |-> "fir", order |-> PipelineOrder]

\* The pairing the single run processes.
Pairing == "a"

InitPipeline ==
    /\ pc = "design"
    /\ \/ clean \in SmallSignals /\ noisy \in SmallSignals
       \/ clean = SineClean /\ noisy = SineNoisy
    /\ threshold_db = DefaultThresholdDb
    /\ LET r == identify_noise_bands(clean, noisy, clean.sr, threshold_db)
       IN  ~r.raised /\ noise_bands = r.noise_bands
    /\ clean_freqs = <<>>
    /\ diff_db = <<>>
    /\ IdleListing
    /\ steps = <<"decode", "detect">>
    /\ written = <<>>
    /\ pairings = <<>>
    /\ spectrum = NoSpectrum
    /\ IdleDesign
    /\ IdleUtils
    /\ error = "none"

\* The step raises: the exception leaves process_audio_pair.
Raise(err) == pc' = "raised" /\ error' = err

\* bsf = BandStopFilter(sr, noise_bands, filter_type='fir', order=201)
DesignFilter ==
    /\ pc = "design"
    /\ steps' = Append(steps, "design")
    /\ LET designed == PipelineDesign(clean.sr, noise_bands)
       IN  IF designed = ValueError
           THEN Raise("ValueError") /\ UNCHANGED <<filt, coefficients>>
           ELSE /\ filt' = PipelineFilter(clean.sr, noise_bands)
                /\ coefficients' = designed
                /\ pc' = "apply"
                /\ UNCHANGED error
    /\ UNCHANGED <<listingVars, written, pairings, signalVars, sweepVars>>
    /\ UNCHANGED <<spectrum, applyVars, utilVars>>

\* filtered_audio = bsf.apply(noisy_audio)
ApplyFilter ==
    /\ pc = "apply"
    /\ steps' = Append(steps, "apply")
    /\ audio_in' = [n |-> noisy.n]
    /\ filtered' = BandStopApply(filt, coefficients, [n |-> noisy.n])
    /\ pc' = "encode"
    /\ UNCHANGED <<listingVars, written, pairings, signalVars, sweepVars>>
    /\ UNCHANGED <<spectrum, filt, coefficients, utilVars, error>>

\* os.makedirs(output_dir); save_audio(output_audio_path, filtered_audio, sr):
\* the file is written, or save_audio raises RuntimeError.
EncodeFiltered ==
    /\ pc = "encode"
    /\ steps' = Append(steps, "encode")
    /\ \E saved \in BOOLEAN :
          IF saved
          THEN /\ written' = Append(written, Written(FilteredPath(Pairing), Pairing))
               /\ pc' = "evaluate"
               /\ UNCHANGED error
          ELSE Raise("RuntimeError") /\ UNCHANGED written
    /\ UNCHANGED <<listingVars, pairings, signalVars, sweepVars>>
    /\ UNCHANGED <<spectrum, designVars, utilVars>>

\* snr_before = calculate_snr(clean_audio, noisy_audio)
\* snr_after = calculate_snr(clean_audio, filtered_audio), and the print:
\* the subtraction inside calculate_snr raises ValueError when the two
\* arrays do not broadcast.  The two values are locals that are printed.
EvaluateQuality ==
    /\ pc = "evaluate"
    /\ steps' = Append(steps, "evaluate")
    /\ IF /\ Broadcasts(Shape(noisy.n), Shape(clean.n))
          /\ Broadcasts(filtered.samples, Shape(clean.n))
       THEN pc' = "plot_comprehensive" /\ UNCHANGED error
       ELSE Raise("ValueError")
    /\ UNCHANGED <<listingVars, written, pairings, signalVars, sweepVars>>
    /\ UNCHANGED <<spectrum, designVars, utilVars>>

\* plot_comprehensive_analysis(clean, noisy, filtered, sr, noise_bands):
\* ax1.plot(time, noisy) raises ValueError when noisy is not as long as
\* clean, signal.spectrogram raises ValueError when the signal is not longer
\* than noverlap; otherwise the figure is saved under the fixed path.
PlotComprehensive ==
    /\ pc = "plot_comprehensive"
    /\ steps' = Append(steps, "plot_comprehensive_analysis")
    /\ IF noisy.n # clean.n \/ Len(filtered.samples) <= SpectrogramOverlap
       THEN Raise("ValueError") /\ UNCHANGED written
       ELSE /\ written' = Append(written, Written(ComprehensivePath, Pairing))
            /\ pc' = "plot_quality"
            /\ UNCHANGED error
    /\ UNCHANGED <<listingVars, pairings, signalVars, sweepVars>>
    /\ UNCHANGED <<spectrum, designVars, utilVars>>

\* plot_quality_metrics(clean, noisy, filtered, sr): metrics.py never
\* imports os, so os.path.join raises NameError before the figure is saved;
\* the statements of process_audio_pair after line 65 do not run.
PlotQualityMetrics ==
    /\ pc = "plot_quality"
    /\ steps' = Append(steps, "plot_quality_metrics")
    /\ Raise("NameError")
    /\ UNCHANGED <<listingVars, written, pairings, signalVars, sweepVars>>
    /\ UNCHANGED <<spectrum, designVars, utilVars>>

NextPipeline ==
    \/ DesignFilter
    \/ ApplyFilter
    \/ EncodeFiltered
    \/ EvaluateQuality
    \/ PlotComprehensive
    \/ PlotQualityMetrics

SpecPipeline == InitPipeline /\ [][NextPipeline]_vars

\* The filtered output file of the pairing is on disk.
FilteredWritten == Written(FilteredPath(Pairing), Pairing) \in Range(written)

-----------------------------------------------------------------------------
(* Two calls of process_audio_pair side by side *)

(***************************************************************************)
(* Two pairings with different file names run the statements of            *)
(* process_audio_pair from line 30 on, their steps interleaved in any      *)
(* order.  What a step computes depends on the pairing's signals, which    *)
(* are left open here: a step that can raise either returns or raises.     *)
(***************************************************************************)
Pairings == {"a", "b"}

\* A pairing at a statement of process_audio_pair, nothing raised.
At(position) == [pc |-> position, error |-> "none"]

\* A pairing that an exception has ended.
Raised(err) == [pc |-> "raised", error |-> err]

InitParallel ==
    /\ pc = "pairings"
    /\ pairings = [p \in Pairings |-> At("design")]
    /\ written = <<>>
    /\ steps = <<>>
    /\ IdleListing
    /\ IdleSignals
    /\ IdleSweep
    /\ spectrum = NoSpectrum
    /\ IdleDesign
    /\ IdleUtils
    /\ error = "none"

\* The pairing moves on; nothing but its position and the disk changes.
Advance(p, next) ==
    /\ pairings' = [pairings EXCEPT ![p] = next]
    /\ UNCHANGED <<pc, listingVars, steps, signalVars, sweepVars, spectrum>>
    /\ UNCHANGED <<designVars, utilVars, error>>

\* bsf = BandStopFilter(sr, noise_bands, filter_type='fir', order=201)
ParallelDesign ==
    \E p \in Pairings, designed \in BOOLEAN :
        /\ pairings[p] = At("design")
        /\ Advance(p, IF designed THEN At("apply") ELSE Raised("ValueError"))
        /\ UNCHANGED written

\* filtered_audio = bsf.apply(noisy_audio)
ParallelApply ==
    \E p \in Pairings :
        /\ pairings[p] = At("apply")
        /\ Advance(p, At("encode"))
        /\ UNCHANGED written

\* save_audio(output_audio_path, filtered_audio, sr)
ParallelEncode ==
    \E p \in Pairings, saved \in BOOLEAN :
        /\ pairings[p] = At("encode")
        /\ Advance(p, IF saved THEN At("evaluate") ELSE Raised("RuntimeError"))
        /\ written' = IF saved THEN Append(written, Written(FilteredPath(p), p))
                      ELSE written

\* the two calculate_snr calls and the print
ParallelEvaluate ==
    \E p \in Pairings, broadcasts \in BOOLEAN :
        /\ pairings[p] = At("evaluate")
        /\ Advance(p, IF broadcasts THEN At("plot_comprehensive")
                      ELSE Raised("ValueError"))
        /\ UNCHANGED written

\* plot_comprehensive_analysis: plt.savefig under the fixed path
ParallelPlotComprehensive ==
    \E p \in Pairings, drawn \in BOOLEAN :
        /\ pairings[p] = At("plot_comprehensive")
        /\ Advance(p, IF drawn THEN At("plot_quality") ELSE Raised("ValueError"))
        /\ written' = IF drawn THEN Append(written, Written(ComprehensivePath, p))
                      ELSE written

\* plot_quality_metrics: NameError
ParallelPlotQuality ==
    \E p \in Pairings :
        /\ pairings[p] = At("plot_quality")
        /\ Advance(p, Raised("NameError"))
        /\ UNCHANGED written

NextParallel ==
    \/ ParallelDesign
    \/ ParallelApply
    \/ ParallelEncode
    \/ ParallelEvaluate
    \/ ParallelPlotComprehensive
    \/ ParallelPlotQuality

SpecParallel == InitParallel /\ [][NextParallel]_vars

-----------------------------------------------------------------------------
(* analysis/time_analysis.py: detect_silence *)

(***************************************************************************)
(* The signal is given by the level of each sample,                        *)
(* 20 * log10(|x| + 1e-10) in whole dB: a sample of amplitude 0, one of    *)
(* amplitude 0.01 (at the default threshold, and not below it) and one of  *)
(* full amplitude.  Indices are counted from 0, as in the code.            *)
(***************************************************************************)

\* threshold_db=-40
SilenceThresholdDb == -40

SampleLevelsDb == {FloorDb, SilenceThresholdDb, 0}

\* Sample rates small enough for int(0.1 * sr) samples to fit the signal.
SilenceRates == {5, 10, 20}

\* int(min_silence_duration * sr) with min_silence_duration=0.1
SilentSamples(sr) == sr \div 10

\* silent_regions = amplitude_db < threshold_db
SilentRegions(amplitude_db, threshold) ==
    [k \in DOMAIN amplitude_db |-> amplitude_db[k] < threshold]

\* silent_regions.astype(int)
AsInt(b) == IF b THEN 1 ELSE 0

\* np.diff(silent_regions.astype(int))
StateChanges(silent_regions) ==
    [k \in 1..(Len(silent_regions) - 1) |->
        AsInt(silent_regions[k + 1]) - AsInt(silent_regions[k])]

\* np.where(state_changes == value)[0]: the indices, ascending
Where(state_changes, value) ==
    LET Holds(i) == state_changes[i + 1] = value
    IN  SelectSeq([k \in DOMAIN state_changes |-> k - 1], Holds)

\* [(start, end) for start, end in zip(starts, ends)
\*  if (end - start) >= silent_samples]
ValidSegments(starts, ends, silent_samples) ==
    LET Long(pair) == pair[2] - pair[1] >= silent_samples
    IN  SelectSeq([k \in 1..ZipLen(starts, ends) |-> <<starts[k], ends[k]>>], Long)

\* detect_silence(audio_data, sr, threshold_db, min_silence_duration=0.1):
\* the (start, end) pairs of the array it returns, none for the two empty
\* arrays.
detect_silence(amplitude_db, sr, threshold) ==
    LET last == Len(amplitude_db) - 1
        state_changes == StateChanges(SilentRegions(amplitude_db, threshold))
        starts0 == Where(state_changes, 1)
        ends0 == Where(state_changes, -1)
        ends1 == IF Len(ends0) = 0 THEN <<last>> ELSE ends0
        starts == IF Len(starts0) = 0 \/ starts0[1] > ends1[1]
                  THEN <<0>> \o starts0 ELSE starts0
        ends == IF ends1[Len(ends1)] < starts[Len(starts)]
                THEN Append(ends1, last) ELSE ends1
    IN  ValidSegments(starts, ends, SilentSamples(sr))

InitSilence ==
    /\ pc = "detect_silence"
    /\ recording \in
          { [amplitude_db |-> a, sr |-> r] :
              a \in UNION {[1..n -> SampleLevelsDb] : n \in 1..MaxLen},
              r \in SilenceRates }
    /\ segments = <<>>
    /\ IdleMetrics
    /\ IdleSummary
    /\ IdleBatch
    /\ IdleSignals
    /\ IdleSweep
    /\ spectrum = NoSpectrum
    /\ IdleDesign
    /\ error = "none"

\* starts, ends = detect_silence(audio_data, sr)
DetectSilence ==
    /\ pc = "detect_silence"
    /\ segments' = detect_silence(recording.amplitude_db, recording.sr,
                                  SilenceThresholdDb)
    /\ pc' = "silence_returned"
    /\ UNCHANGED <<recording, metricVars, summaryVars, error>>
    /\ UNCHANGED <<batchVars, signalVars, sweepVars, spectrum, designVars>>

NextSilence == DetectSilence

SpecSilence == InitSilence /\ [][NextSilence]_vars

\* The sample with index i (from 0) is below the threshold.
IsSilent(i) == recording.amplitude_db[i + 1] < SilenceThresholdDb

\* C29: every (start, end) segment detect_silence returns has start <= end,
\* spans at least min_silence_duration * sr samples, and covers only samples
\* whose level is below threshold_db; a signal without a sample below the
\* threshold yields no segment.
C29_SegmentsAreSilent ==
    pc = "silence_returned" =>
        /\ \A k \in DOMAIN segments :
              /\ segments[k][1] <= segments[k][2]
              /\ (segments[k][2] - segments[k][1] + 1) * 10 >= recording.sr
              /\ \A i \in segments[k][1]..segments[k][2] : IsSilent(i)
        /\ (\A i \in 0..(Len(recording.amplitude_db) - 1) : ~IsSilent(i)) =>
              segments = <<>>

=============================================================================
